---- MODULE Spec2Model ----
(***************************************************************************)
(* Model of app3.py, the Streamlit "Lecture Voice-to-Notes Generator".     *)
(*                                                                         *)
(* The program is one script that Streamlit runs top to bottom on every    *)
(* user interaction and on every st.rerun().  st.session_state survives    *)
(* between runs, st.cache_resource survives for the whole process.  One    *)
(* action of the model is one complete run of the script (preceded by the  *)
(* on_click callback when the interaction is a click on "Start Over").     *)
(*                                                                         *)
(* The three machine-learning pipelines, the sentence tokenizer and the    *)
(* clock are collaborators: their results are inputs of a run, drawn from  *)
(* bounded sets.                                                           *)
(***************************************************************************)
EXTENDS Integers, Sequences, FiniteSets, TLC

VARIABLES session_state, cache, widgets, download_report, pc, pipelineLog, last,
          inputs, startPhase, lastTemp

vars == <<session_state, cache, widgets, download_report, pc, pipelineLog, last,
          inputs, startPhase, lastTemp>>

-----------------------------------------------------------------------------
(* Bounds of the model *)

\* datetime.now() takes the values 0..MaxClock
MaxClock == 1
\* runs of the processing stage (calls of transcribe_with_whisper) per session
MaxWhisperCalls == 2
\* sentences of one transcript for which question generation may raise
MaxFailures == 1
\* qualifying sentences of the long transcript beyond the cap of 10
ExtraSentences == 1

-----------------------------------------------------------------------------
(* Program constants *)

MinWords == 10
MaxWords == 50
MaxCards == 10

-----------------------------------------------------------------------------
(* Python values *)

None == [tag |-> "None"]
Some(v) == [tag |-> "Some", val |-> v]

\* A str produced by a collaborator is a run of sentences, possibly after
\* leading whitespace.  A sentence (and a generated question) is known by its
\* identity, its number of whitespace-separated words and whether whitespace
\* surrounds it.
Str(lead, sents) == [lead |-> lead, sents |-> sents]
Sentence(id, words, pad) == [id |-> id, words |-> words, pad |-> pad]

\* bool(x) of an optional str or bytes or list: None and the empty value are falsy
StrLen(t) == t.lead + Len(t.sents)
TruthyStr(x) == x # None /\ StrLen(x.val) > 0
TruthySeq(x) == x # None /\ Len(x.val) > 0

\* s.strip()
strip(s) == [s EXCEPT !.pad = 0]
\* len(s.split())
WordCount(s) == s.words
\* nltk.sent_tokenize(text)
sent_tokenize(text) == text.sents

-----------------------------------------------------------------------------
(* Inputs *)

Clock == 0 .. MaxClock

AudioBlobs == { <<>>, <<1>> }

\* f"recording_{datetime.now().strftime('%Y%m%d_%H%M%S')}.webm"
RecordingName(now) == [stem |-> "recording_", stamp |-> Some(now), ext |-> ".webm"]
\* audio_file.name of the uploaded file
UploadName == [stem |-> "lecture", stamp |-> None, ext |-> ".mp3"]

\* value of mic_recorder(...): a dict with the recorded bytes
Recordings == { [bytes |-> b] : b \in AudioBlobs }
\* value of st.file_uploader(...): an UploadedFile with a name and a content
Uploads == { [name |-> UploadName, content |-> b] : b \in AudioBlobs }

Min(a, b) == IF a < b THEN a ELSE b

LongLen == MaxCards + ExtraSentences + 1

\* Transcripts the speech-to-text model may return
EmptyText == Str(0, <<>>)
BlankText == Str(1, <<>>)
ShortText == Str(0, << Sentence(1, 5, 0) >>)
EdgeText  == Str(1, << Sentence(1, MinWords, 0), Sentence(2, MinWords + 1, 1),
                       Sentence(3, MaxWords - 1, 0), Sentence(4, MaxWords, 1) >>)
\* sentence 2 does not qualify, all the others do
LongText  == Str(0, [i \in 1 .. LongLen |->
                        Sentence(i, IF i = 2 THEN 3 ELSE MinWords + i, 0)])
\* five sentences, all qualifying
FiveText  == Str(0, [i \in 1 .. 5 |-> Sentence(i, MinWords + 2 * i, 0)])
Transcripts == { EmptyText, BlankText, ShortText, EdgeText, FiveText, LongText }

\* Texts the summarizer may return
SummaryText == Str(0, << Sentence(100, 40, 0) >>)
Summaries == { EmptyText, SummaryText }

\* text generated by the question-generation pipeline for sentence s
GeneratedText(s) == Sentence(s.id, 8, 1)

IdsOf(text) == { text.sents[i].id : i \in 1 .. Len(text.sents) }
FailSets(text) == { F \in SUBSET IdsOf(text) : Cardinality(F) <= MaxFailures }

\* What the collaborators do during one run of the script:
\*   whisperLoad, nlpLoad  whether whisper.load_model / pipeline(...) succeed
\*   whisper               None when model.transcribe raises, else its text
\*   summary               None when the summarizer raises, else its text
\*   qfail                 ids of the sentences on which qg_pipe raises
\*   removeOk              whether os.remove(temp_path) succeeds
Env(wl, w, nl, s, qf, rm) ==
    [whisperLoad |-> wl, whisper |-> w, nlpLoad |-> nl, summary |-> s, qfail |-> qf,
     removeOk |-> rm]
DefaultEnv == Env(TRUE, None, TRUE, None, {}, TRUE)
Envs ==
    UNION { { Env(FALSE, None, TRUE, None, {}, rm), Env(TRUE, None, TRUE, None, {}, rm) }
            \cup { Env(TRUE, Some(t), FALSE, None, {}, rm) : t \in Transcripts }
            \cup UNION { UNION { { Env(TRUE, Some(t), TRUE, s, qf, rm) : qf \in FailSets(t) }
                                 : s \in {None} \cup { Some(x) : x \in Summaries } }
                         : t \in Transcripts }
            : rm \in BOOLEAN }

-----------------------------------------------------------------------------
(* State management *)

Keys == { "audio_data", "file_name", "transcription", "summary", "flashcards" }

\* for key in [...]: if key not in st.session_state: st.session_state[key] = None
InitKeys(ss) == [k \in Keys |-> IF k \in DOMAIN ss THEN ss[k] ELSE None]

\* a reset that forgets one key
keys_to_clear_partial == { "audio_data", "file_name", "transcription", "flashcards" }

\* a reset that clears the audio and keeps what was derived from it
keys_to_clear_audioOnly == { "audio_data", "file_name" }

keys_to_clear == { "audio_data", "file_name", "transcription", "summary", "flashcards" }

reset_app(ss) == [k \in (DOMAIN ss) \ keys_to_clear |-> ss[k]]

-----------------------------------------------------------------------------
(* Cached model handles: st.cache_resource keeps the result of the first   *)
(* call that returns; a call that raises caches nothing.                   *)

\* a loader that runs its body on every call
Load_everyCall(c, fn, ok) ==
    IF ok THEN [ok |-> TRUE, cache |-> c \cup {fn}]
    ELSE [ok |-> FALSE, cache |-> c]

Load(c, fn, ok) ==
    IF fn \in c THEN [ok |-> TRUE, cache |-> c]
    ELSE IF ok THEN [ok |-> TRUE, cache |-> c \cup {fn}]
    ELSE [ok |-> FALSE, cache |-> c]

load_models(c, env) == Load(c, "load_models", env.nlpLoad)
load_whisper(c, env) == Load(c, "load_whisper", env.whisperLoad)

-----------------------------------------------------------------------------
(* Functions *)

\* finally: try: os.remove(temp_path) except: pass
RemoveTemp(env) == IF env.removeOk THEN "removed" ELSE "remove_failed"

\* a transcription that removes the file only after the try block succeeded
transcribe_with_whisper_noFinally(audio_bytes, c, env) ==
    LET m == Load(c, "load_whisper", env.whisperLoad) IN
    IF ~m.ok
    THEN [exc |-> FALSE, ret |-> None, cache |-> m.cache, did |-> "load_failed",
          tmp |-> "kept"]
    ELSE IF env.whisper = None
    THEN [exc |-> FALSE, ret |-> None, cache |-> m.cache, did |-> "raised",
          tmp |-> "kept"]
    ELSE [exc |-> FALSE, ret |-> env.whisper, cache |-> m.cache, did |-> "returned",
          tmp |-> RemoveTemp(env)]

\* Result of a call: the value returned (ret), whether an exception left the
\* function (exc), the model cache after the call, and what the call did (did).
\* load_whisper() and model.transcribe are inside the try: both failures
\* give None.  tmp is what became of the temporary file of the call.
transcribe_with_whisper(audio_bytes, c, env) ==
    LET m == load_whisper(c, env) IN
    IF ~m.ok
    THEN [exc |-> FALSE, ret |-> None, cache |-> m.cache, did |-> "load_failed",
          tmp |-> RemoveTemp(env)]
    ELSE IF env.whisper = None
    THEN [exc |-> FALSE, ret |-> None, cache |-> m.cache, did |-> "raised",
          tmp |-> RemoveTemp(env)]
    ELSE [exc |-> FALSE, ret |-> env.whisper, cache |-> m.cache, did |-> "returned",
          tmp |-> RemoveTemp(env)]

\* a summary stage without the try/except around the summarizer
generate_summary_propagates(text, c, env) ==
    LET m == Load(c, "load_models", env.nlpLoad) IN
    IF ~m.ok
    THEN [exc |-> TRUE, ret |-> None, cache |-> m.cache, did |-> "load_failed"]
    ELSE IF env.summary = None
    THEN [exc |-> TRUE, ret |-> None, cache |-> m.cache, did |-> "raised"]
    ELSE [exc |-> FALSE, ret |-> env.summary, cache |-> m.cache, did |-> "returned"]

\* load_models() is called outside the try: when it raises, the exception
\* leaves generate_summary (exc); a raising summarizer gives None.
generate_summary(text, c, env) ==
    LET m == load_models(c, env) IN
    IF ~m.ok
    THEN [exc |-> TRUE, ret |-> None, cache |-> m.cache, did |-> "load_failed"]
    ELSE IF env.summary = None
    THEN [exc |-> FALSE, ret |-> None, cache |-> m.cache, did |-> "raised"]
    ELSE [exc |-> FALSE, ret |-> env.summary, cache |-> m.cache, did |-> "returned"]

\* a filter with inclusive bounds
Qualifies_inclusive(s) == MinWords <= WordCount(s) /\ WordCount(s) <= MaxWords

\* 10 < len(s.split()) < 50
Qualifies(s) == MinWords < WordCount(s) /\ WordCount(s) < MaxWords

good_sentences(sentences) == SelectSeq(sentences, Qualifies)

\* good_sentences[:10]
Candidates(good) == SubSeq(good, 1, Min(MaxCards, Len(good)))

Flashcard(q, s) == [question |-> strip(q), answer |-> strip(s)]

\* a loop that gives up the batch at the first failure
RECURSIVE FlashcardLoop_break(_, _)
FlashcardLoop_break(cands, qfail) ==
    IF Len(cands) = 0 THEN << >>
    ELSE LET s == Head(cands) IN
         IF s.id \in qfail THEN << >>
         ELSE << [question |-> strip(GeneratedText(s)), answer |-> strip(s)] >>
              \o FlashcardLoop_break(Tail(cands), qfail)

\* for s in good_sentences[:10]: try: ... append ... except: continue
RECURSIVE FlashcardLoop(_, _)
FlashcardLoop(cands, qfail) ==
    IF Len(cands) = 0 THEN << >>
    ELSE LET s == Head(cands)
             rest == FlashcardLoop(Tail(cands), qfail)
         IN  IF s.id \in qfail THEN rest
             ELSE << Flashcard(GeneratedText(s), s) >> \o rest

\* a generator that caps the cards made instead of the candidates tried
generate_flashcards_capCards(text, c, env) ==
    LET m == Load(c, "load_models", env.nlpLoad)
        cards == FlashcardLoop(SelectSeq(sent_tokenize(text), Qualifies), env.qfail)
    IN  IF ~m.ok
        THEN [exc |-> TRUE, ret |-> << >>, cache |-> m.cache, did |-> "load_failed"]
        ELSE [exc |-> FALSE, cache |-> m.cache, did |-> "returned",
              ret |-> SubSeq(cards, 1, Min(MaxCards, Len(cards)))]

generate_flashcards(text, c, env) ==
    LET m == load_models(c, env) IN
    IF ~m.ok
    THEN [exc |-> TRUE, ret |-> << >>, cache |-> m.cache, did |-> "load_failed"]
    ELSE [exc |-> FALSE, cache |-> m.cache, did |-> "returned",
          ret |-> FlashcardLoop(Candidates(good_sentences(sent_tokenize(text))),
                                env.qfail)]

\* ids of the sentences on which generate_flashcards called qg_pipe and it raised
QgFailed(text, env) ==
    LET cands == Candidates(good_sentences(sent_tokenize(text))) IN
    { cands[i].id : i \in 1 .. Len(cands) } \cap env.qfail

-----------------------------------------------------------------------------
(* Main UI: one run of the script *)

\* What a run leaves behind: the session state, the model cache, the widgets
\* it rendered, the data of the "Download Report" button, whether it ended in
\* st.rerun(), and what its processing stage did, if it ran.  tmp is what
\* became of the temporary file of the run: "none" when it created none.
Out(ss, c, w, report, rerun, log) ==
    [ss |-> ss, cache |-> c, widgets |-> w, report |-> report,
     rerun |-> rerun, log |-> log, tmp |-> "none"]

InputWidgets == { "recorder", "uploader" }
AudioWidgets == { "audio", "download_audio" }
DownloadButtons == { "download_audio", "download_transcription", "download_summary",
                     "download_flashcards_txt", "download_flashcards_json",
                     "download_report" }

\* an input view that stores the audio and waits for the next interaction
InputView_noRerun(ss, c, mic, upload, now) ==
    IF mic # None /\ Len(mic.val.bytes) > 0
    THEN Out([ss EXCEPT !.file_name = Some(RecordingName(now)),
                        !.audio_data = Some(mic.val.bytes)],
             c, { "recorder" }, None, FALSE, << >>)
    ELSE IF upload # None
    THEN Out([ss EXCEPT !.file_name = Some(upload.val.name),
                        !.audio_data = Some(upload.val.content)],
             c, InputWidgets, None, FALSE, << >>)
    ELSE Out(ss, c, InputWidgets, None, FALSE, << >>)

\* an input view whose recording branch does not end the run with st.rerun()
InputView_fallthrough(ss, c, mic, upload, now) ==
    IF upload # None
    THEN Out([ss EXCEPT !.file_name = Some(upload.val.name),
                        !.audio_data = Some(upload.val.content)],
             c, InputWidgets, None, TRUE, << >>)
    ELSE IF mic # None /\ Len(mic.val.bytes) > 0
    THEN Out([ss EXCEPT !.file_name = Some(RecordingName(now)),
                        !.audio_data = Some(mic.val.bytes)],
             c, InputWidgets, None, FALSE, << >>)
    ELSE Out(ss, c, InputWidgets, None, FALSE, << >>)

InputView(ss, c, mic, upload, now) ==
    IF mic # None /\ Len(mic.val.bytes) > 0
    THEN Out([ss EXCEPT !.file_name = Some(RecordingName(now)),
                        !.audio_data = Some(mic.val.bytes)],
             c, { "recorder" }, None, TRUE, << >>)
    ELSE IF upload # None
    THEN Out([ss EXCEPT !.file_name = Some(upload.val.name),
                        !.audio_data = Some(upload.val.content)],
             c, InputWidgets, None, TRUE, << >>)
    ELSE Out(ss, c, InputWidgets, None, FALSE, << >>)

\* One entry of the log: what a run of the processing stage did; qgFailed
\* are the sentences whose question generation raised
Stage(audio, t, s, f, failed) ==
    [audio |-> audio, transcribe |-> t, summarize |-> s, flashcards |-> f,
     qgFailed |-> failed]

\* the run created a temporary audio file and tmp is what became of it
WithTemp(out, tmp) == [out EXCEPT !.tmp = tmp]

\* a gate on truthiness instead of on None
TranscriptionGate_falsy(ss) == ~TruthyStr(ss.transcription)

\* if st.session_state.transcription is None:
TranscriptionGate(ss) == ss.transcription = None

\* a processing stage that does not store the transcript
StoreTranscription_skip(ss, ret) == ss

\* st.session_state.transcription = transcription
StoreTranscription(ss, ret) == [ss EXCEPT !.transcription = ret]

Processing(ss, c, env) ==
    LET audio == ss.audio_data.val
        t == transcribe_with_whisper(audio, c, env)
        ss1 == StoreTranscription(ss, t.ret)
    IN  WithTemp(
        IF TruthyStr(t.ret)
        THEN LET s == generate_summary(t.ret.val, t.cache, env) IN
             IF s.exc
             THEN Out(ss1, s.cache, AudioWidgets, None, FALSE,
                      << Stage(audio, t.did, s.did, "not_run", {}) >>)
             ELSE LET ss2 == [ss1 EXCEPT !.summary = s.ret]
                      f == generate_flashcards(t.ret.val, s.cache, env)
                  IN  IF f.exc
                      THEN Out(ss2, f.cache, AudioWidgets, None, FALSE,
                               << Stage(audio, t.did, s.did, f.did, {}) >>)
                      ELSE Out([ss2 EXCEPT !.flashcards = Some(f.ret)], f.cache,
                               AudioWidgets, None, TRUE,
                               << Stage(audio, t.did, s.did, f.did,
                                        QgFailed(t.ret.val, env)) >>)
        ELSE Out(ss1, t.cache, AudioWidgets, None, FALSE,
                 << Stage(audio, t.did, "not_run", "not_run", {}) >>),
        t.tmp)

NoSummary == Str(0, << Sentence(0, 2, 0) >>)

Line(label, number, body) == [label |-> label, number |-> number, body |-> body]

\* a report that numbers the cards as enumerate() counts them, from 0
full_report_zeroBased(ss, now) ==
    LET cards == IF TruthySeq(ss.flashcards) THEN ss.flashcards.val ELSE << >> IN
    << Line("File", 0, ss.file_name.val),
       Line("Generated", 0, now),
       Line("=== TRANSCRIPTION ===", 0, ss.transcription.val),
       Line("=== SUMMARY ===", 0,
            IF TruthyStr(ss.summary) THEN ss.summary.val ELSE NoSummary),
       Line("=== FLASHCARDS ===", 0, << >>) >>
    \o [i \in 1 .. Len(cards) |-> Line("Card", i - 1, cards[i])]

full_report(ss, now) ==
    LET cards == IF TruthySeq(ss.flashcards) THEN ss.flashcards.val ELSE << >> IN
    << Line("File", 0, ss.file_name.val),
       Line("Generated", 0, now),
       Line("=== TRANSCRIPTION ===", 0, ss.transcription.val),
       Line("=== SUMMARY ===", 0,
            IF TruthyStr(ss.summary) THEN ss.summary.val ELSE NoSummary),
       Line("=== FLASHCARDS ===", 0, << >>) >>
    \o [i \in 1 .. Len(cards) |-> Line("Card", (i - 1) + 1, cards[i])]

\* an export that stores the placeholder it prints for an absent summary
Results_fillSummary(ss, c, export, now) ==
    Out(IF export /\ ~TruthyStr(ss.summary)
        THEN [ss EXCEPT !.summary = Some(Str(0, << Sentence(0, 2, 0) >>))] ELSE ss,
        c, AudioWidgets \cup { "download_transcription", "start_over", "export_all" }
             \cup (IF export THEN { "download_report" } ELSE {}),
        IF export THEN Some(full_report(ss, now)) ELSE None,
        FALSE, << >>)

\* a results view that consumes the list while showing the cards
Results_pop(ss, c, export, now) ==
    Out(IF TruthySeq(ss.flashcards)
        THEN [ss EXCEPT !.flashcards = Some(Tail(ss.flashcards.val))] ELSE ss,
        c, AudioWidgets \cup { "download_transcription", "start_over", "export_all" },
        None, FALSE, << >>)

Results(ss, c, export, now) ==
    Out(ss, c,
        AudioWidgets \cup { "download_transcription" }
          \cup (IF TruthyStr(ss.summary) THEN { "download_summary" } ELSE {})
          \cup (IF TruthySeq(ss.flashcards)
                THEN { "download_flashcards_txt", "download_flashcards_json" } ELSE {})
          \cup { "start_over", "export_all" }
          \cup (IF export THEN { "download_report" } ELSE {}),
        IF export THEN Some(full_report(ss, now)) ELSE None,
        FALSE, << >>)

Main(ss0, c, mic, upload, export, now, env) ==
    LET ss == InitKeys(ss0) IN
    IF ss.audio_data = None THEN InputView(ss, c, mic, upload, now)
    ELSE IF TranscriptionGate(ss) THEN Processing(ss, c, env)
    ELSE Results(ss, c, export, now)

-----------------------------------------------------------------------------
(* Interactions *)

\* State of the session: which view the script shows for it
Phase(ss) ==
    IF ss.audio_data = None THEN "EMPTY"
    ELSE IF ss.transcription = None THEN "ACQUIRED"
    ELSE "READY"

\* the values the two input widgets had in a run
WidgetValues(mic, upload) == [mic |-> mic, upload |-> upload]

\* the run will reach the processing stage and call transcribe_with_whisper
NeedsPipeline(ss) == ss.audio_data # None /\ TranscriptionGate(ss)

Run(ss0, log0, mic, upload, export, now, name) ==
    /\ NeedsPipeline(InitKeys(ss0)) => Len(log0) < MaxWhisperCalls
    /\ \E env \in (IF NeedsPipeline(InitKeys(ss0)) THEN Envs ELSE { DefaultEnv }) :
         LET r == Main(ss0, cache, mic, upload, export, now, env) IN
         /\ session_state' = r.ss
         /\ cache' = r.cache
         /\ widgets' = r.widgets
         /\ download_report' = r.report
         /\ pc' = IF r.rerun THEN "rerun" ELSE "idle"
         /\ pipelineLog' = log0 \o r.log
         /\ last' = name
         /\ inputs' = WidgetValues(mic, upload)
         /\ startPhase' = IF name = "Rerun" THEN startPhase ELSE Phase(session_state)
         /\ lastTemp' = r.tmp

Init ==
    /\ session_state = InitKeys(<< >>)
    /\ cache = {}
    /\ widgets = InputWidgets
    /\ download_report = None
    /\ pc = "idle"
    /\ pipelineLog = << >>
    /\ last = "start"
    /\ inputs = WidgetValues(None, None)
    /\ startPhase = "EMPTY"
    /\ lastTemp = "none"

\* the microphone component delivers a recording
StopRecording ==
    /\ pc = "idle" /\ "recorder" \in widgets
    /\ \E audio \in Recordings, now \in Clock :
         Run(session_state, pipelineLog, Some(audio), None, FALSE, now, "StopRecording")

\* the upload control delivers a file
UploadFile ==
    /\ pc = "idle" /\ "uploader" \in widgets
    /\ \E file \in Uploads :
         Run(session_state, pipelineLog, None, Some(file), FALSE, 0, "UploadFile")

\* both controls changed before the run started
RecordAndUpload ==
    /\ pc = "idle" /\ InputWidgets \subseteq widgets
    /\ \E audio \in Recordings, file \in Uploads, now \in Clock :
         Run(session_state, pipelineLog, Some(audio), Some(file), FALSE, now,
             "RecordAndUpload")

\* the run requested by st.rerun()
Rerun ==
    /\ pc = "rerun"
    /\ Run(session_state, pipelineLog, None, None, FALSE, 0, "Rerun")

\* a click on a download button reruns the script
ClickDownload ==
    /\ pc = "idle" /\ widgets \cap DownloadButtons # {}
    /\ Run(session_state, pipelineLog, None, None, FALSE, 0, "ClickDownload")

\* "Start Over": the on_click callback reset_app, then the run
ClickStartOver ==
    /\ pc = "idle" /\ "start_over" \in widgets
    /\ Run(reset_app(session_state), << >>, None, None, FALSE, 0, "ClickStartOver")

\* an export is "again" when the page already shows the report of an export
ExportName == IF download_report # None THEN "ClickExportAllAgain" ELSE "ClickExportAll"

ClickExportAll ==
    /\ pc = "idle" /\ "export_all" \in widgets
    /\ \E now \in Clock :
         Run(session_state, pipelineLog, None, None, TRUE, now, ExportName)

Next ==
    \/ StopRecording
    \/ UploadFile
    \/ RecordAndUpload
    \/ Rerun
    \/ ClickDownload
    \/ ClickStartOver
    \/ ClickExportAll

Spec == Init /\ [][Next]_vars

TypeOK ==
    /\ DOMAIN session_state = Keys
    /\ cache \subseteq { "load_models", "load_whisper" }
    /\ pc \in { "idle", "rerun" }
    /\ Len(pipelineLog) <= MaxWhisperCalls

-----------------------------------------------------------------------------
(* Properties *)

LastStage == pipelineLog[Len(pipelineLog)]

Failed(stage) == stage.transcribe \in { "load_failed", "raised" }

Fresh ==
    /\ \A k \in Keys : session_state[k] = None
    /\ widgets = InputWidgets
    /\ download_report = None
    /\ pc = "idle"

\* C1: once the transcript is not None, no step other than a reset changes it
\* and no step other than a reset runs the processing stage (and with it the
\* transcription collaborator) again.
C1_TranscriptNeverRecomputed ==
    [][ (session_state.transcription # None /\ last' # "ClickStartOver")
        => /\ session_state'.transcription = session_state.transcription
           /\ pipelineLog' = pipelineLog ]_vars

\* the transcript is set and the user has exported or downloaded since
C1_Witness ==
    /\ session_state.transcription # None
    /\ last \in { "ClickExportAll", "ClickDownload" }
    /\ Len(pipelineLog) = 1

\* C2: summary or flashcards set implies transcript set; and after a failed
\* transcription the transcript, the summary and the flashcards are all unset
\* and neither summarization nor flashcard generation was run.
C2_NoDerivedWithoutTranscript ==
    /\ (session_state.summary # None \/ session_state.flashcards # None)
          => session_state.transcription # None
    /\ (Len(pipelineLog) > 0 /\ Failed(LastStage))
          => /\ session_state.transcription = None
             /\ session_state.summary = None
             /\ session_state.flashcards = None
             /\ LastStage.summarize = "not_run"
             /\ LastStage.flashcards = "not_run"

\* the collaborator has raised in the last run of the processing stage
C2_Witness ==
    /\ Len(pipelineLog) > 0
    /\ LastStage.transcribe = "raised"
    /\ pc = "idle"

\* C3 (as claimed): whenever audio is held and the page waits for the user,
\* "Start Over" is on the page.
C3_ResetAlwaysAvailable ==
    (pc = "idle" /\ session_state.audio_data # None) => "start_over" \in widgets

\* C4 (as claimed): after a failed transcription the processing stage is not
\* run again in the session: only the last run of a session may have failed.
C4_NoRetry ==
    \A i \in 1 .. Len(pipelineLog) - 1 : ~Failed(pipelineLog[i])

\* C5: reset_app removes the five keys from any session state, and after the
\* run that follows a click on "Start Over" the session is as at start: the
\* five fields are None and the input view is shown.
C5_ResetIsFresh ==
    /\ (DOMAIN reset_app(session_state)) \cap Keys = {}
    /\ last = "ClickStartOver" => (Fresh /\ pipelineLog = << >>)

\* a reset has been run after the models were used
C5_Witness ==
    /\ last = "ClickStartOver"
    /\ cache = { "load_models", "load_whisper" }

\* C6 (as claimed): an audio blob held by the session is never empty.
C6_AudioNonEmpty ==
    session_state.audio_data # None => Len(session_state.audio_data.val) > 0

\* C7 (as claimed): whenever the transcript is set, flashcard generation has
\* been run and the flashcards field holds a batch.
C7_FlashcardsWithTranscript ==
    session_state.transcription # None
        => /\ session_state.flashcards # None
           /\ LastStage.flashcards = "returned"

\* the answer of a card is the stripped sentence i of the transcript
AnswerIs(card, text, i) == card.answer = [text.sents[i] EXCEPT !.pad = 0]

\* C8: when the summarizer has raised in the processing stage, the summary is
\* unset, flashcard generation has run on the stored transcript and its batch
\* is stored, and the session goes on to the results view.
C8_SummaryFailureDoesNotAbort ==
    (Len(pipelineLog) > 0 /\ LastStage.summarize = "raised")
        => /\ session_state.summary = None
           /\ session_state.transcription # None
           /\ LastStage.flashcards = "returned"
           /\ session_state.flashcards # None
           /\ \A k \in 1 .. Len(session_state.flashcards.val) :
                 \E i \in 1 .. Len(session_state.transcription.val.sents) :
                    AnswerIs(session_state.flashcards.val[k],
                             session_state.transcription.val, i)
           /\ pc = "rerun" \/ "start_over" \in widgets

\* the summarizer raised, cards were made, and the results view is shown
C8_Witness ==
    /\ Len(pipelineLog) > 0
    /\ LastStage.summarize = "raised"
    /\ session_state.flashcards # None
    /\ Len(session_state.flashcards.val) > 0
    /\ "start_over" \in widgets

\* sentence i of the text has more than 10 and fewer than 50 words
InRange(text, i) == 10 < text.sents[i].words /\ text.sents[i].words < 50

\* the number of sentences before sentence i that are in range
InRangeBefore(text, i) == Cardinality({ j \in 1 .. i - 1 : InRange(text, j) })

\* C9: a stored batch has at most 10 cards, and the answer of every card is
\* one of the first 10 sentences in range, in document order.
C9_AtMostTenFromFirstTen ==
    session_state.flashcards # None
        => LET cards == session_state.flashcards.val
               text == session_state.transcription.val
           IN  /\ Len(cards) <= 10
               /\ \A k \in 1 .. Len(cards) :
                     \E i \in 1 .. Len(text.sents) :
                        /\ AnswerIs(cards[k], text, i)
                        /\ InRange(text, i)
                        /\ InRangeBefore(text, i) < 10

\* more than 10 sentences are in range and question generation has failed
\* for one of the first 10
C9_Witness ==
    /\ session_state.flashcards # None
    /\ InRangeBefore(session_state.transcription.val,
                     Len(session_state.transcription.val.sents) + 1) > 10
    /\ Len(session_state.flashcards.val) = 9

\* C10: the answer of every stored card is a sentence of the transcript with
\* more than 10 and fewer than 50 words; a transcript without such a
\* sentence gives the empty list.
C10_AnswersInRange ==
    session_state.flashcards # None
        => LET cards == session_state.flashcards.val
               text == session_state.transcription.val
           IN  /\ \A k \in 1 .. Len(cards) :
                     /\ 10 < WordCount(cards[k].answer)
                     /\ WordCount(cards[k].answer) < 50
                     /\ \E i \in 1 .. Len(text.sents) : AnswerIs(cards[k], text, i)
               /\ InRangeBefore(text, Len(text.sents) + 1) = 0 => cards = << >>

\* sentences of exactly 10 and of exactly 50 words were in the transcript
\* and only the two between them gave a card
C10_Witness ==
    /\ session_state.flashcards # None
    /\ \E i, j \in 1 .. Len(session_state.transcription.val.sents) :
          /\ session_state.transcription.val.sents[i].words = 10
          /\ session_state.transcription.val.sents[j].words = 50
    /\ Len(session_state.flashcards.val) = 2

\* positions of the sentences of the text that were candidates (in range and
\* among the first 10 such) and whose question generation did not raise
Succeeded(text, failed) ==
    { i \in 1 .. Len(text.sents) :
        /\ InRange(text, i)
        /\ InRangeBefore(text, i) < 10
        /\ text.sents[i].id \notin failed }

\* C11: a stored batch is exactly the candidates whose question generation
\* succeeded, in transcript order: card k is the k-th such sentence.
C11_CardsAreSucceededInOrder ==
    session_state.flashcards # None
        => LET cards == session_state.flashcards.val
               text == session_state.transcription.val
               ok == Succeeded(text, LastStage.qgFailed)
           IN  /\ Len(cards) = Cardinality(ok)
               /\ \A k \in 1 .. Len(cards) :
                     \E i \in ok :
                        /\ AnswerIs(cards[k], text, i)
                        /\ Cardinality({ j \in ok : j < i }) = k - 1

\* question generation raised on candidate 3 of 5 and 4 cards were made
C11_Witness ==
    /\ session_state.flashcards # None
    /\ Len(session_state.transcription.val.sents) = 5
    /\ LastStage.qgFailed = { session_state.transcription.val.sents[3].id }
    /\ Len(session_state.flashcards.val) = 4

Derived ==
    \/ session_state.transcription # None
    \/ session_state.summary # None
    \/ session_state.flashcards # None

\* C12: whenever transcript, summary or flashcards are set, the audio blob is
\* set and is the blob given to the transcription that produced them; and a
\* held blob and its file name are never replaced: they change only by being
\* cleared, together with every derived field.
C12_DerivedFromHeldAudio ==
    /\ [](Derived => /\ session_state.audio_data # None
                     /\ Len(pipelineLog) > 0
                     /\ LastStage.transcribe = "returned"
                     /\ LastStage.audio = session_state.audio_data.val)
    /\ [][ session_state.audio_data # None
           => \/ /\ session_state'.audio_data = session_state.audio_data
                 /\ session_state'.file_name = session_state.file_name
              \/ \A k \in Keys : session_state'[k] = None ]_vars

\* the results of an uploaded one-byte file are on the page
C12_Witness ==
    /\ session_state.flashcards # None
    /\ session_state.summary # None
    /\ session_state.audio_data = Some(<< 1 >>)
    /\ session_state.file_name = Some(UploadName)
    /\ "start_over" \in widgets

\* the runs of the processing stage of this session that stored a batch
BatchRuns == { n \in 1 .. Len(pipelineLog) : pipelineLog[n].flashcards = "returned" }

\* C13: the flashcards field is None or the whole batch of the one generation
\* pass of the session (a card for every candidate that did not fail); once
\* set it is not changed by any step except by being cleared on reset.
C13_FlashcardsWholeBatch ==
    /\ [](/\ Cardinality(BatchRuns) <= 1
          /\ session_state.flashcards # None
               => /\ BatchRuns = { Len(pipelineLog) }
                  /\ Len(session_state.flashcards.val)
                       = Cardinality(Succeeded(session_state.transcription.val,
                                               LastStage.qgFailed)))
    /\ [][ session_state.flashcards # None
           => \/ session_state'.flashcards = session_state.flashcards
              \/ (session_state'.flashcards = None /\ last' = "ClickStartOver") ]_vars

\* a batch with a card missing for a failed sentence is still stored after
\* the user exported
C13_Witness ==
    /\ session_state.flashcards # None
    /\ Len(session_state.flashcards.val) >= 2
    /\ LastStage.qgFailed # {}
    /\ last = "ClickExportAll"

\* the last run ran the input view and took audio from a channel
Acquired ==
    /\ last \in { "StopRecording", "UploadFile", "RecordAndUpload" }
    /\ session_state.audio_data # None

Captured == inputs.mic # None /\ Len(inputs.mic.val.bytes) > 0

\* C14: the file name is set exactly when the audio blob is set; a run that
\* acquires audio takes blob and name from one channel: when a recording was
\* captured, the blob is the recording, the name is a recording name and the
\* upload control was not reached in that run; otherwise blob and name are
\* those of the uploaded file.
C14_OneChannel ==
    /\ (session_state.file_name # None) <=> (session_state.audio_data # None)
    /\ Acquired
         => IF Captured
            THEN /\ session_state.audio_data.val = inputs.mic.val.bytes
                 /\ \E now \in Clock :
                       session_state.file_name.val
                         = [stem |-> "recording_", stamp |-> Some(now), ext |-> ".webm"]
                 /\ "uploader" \notin widgets
            ELSE /\ inputs.upload # None
                 /\ session_state.audio_data.val = inputs.upload.val.content
                 /\ session_state.file_name.val = inputs.upload.val.name

\* a recording was captured in a run in which a different file was uploaded
C14_Witness ==
    /\ Acquired
    /\ Captured
    /\ inputs.upload # None
    /\ inputs.upload.val.content # inputs.mic.val.bytes
    /\ session_state.audio_data.val = inputs.mic.val.bytes

Exports == { "ClickExportAll", "ClickExportAllAgain" }

\* the line of a report that carries the time of generation
GeneratedLine(report) == report[2]

\* C15: a run of Export All changes no field of the session, and when it
\* follows an export with the same timestamp it gives the same report.
C15_ExportIsPure ==
    [][ last' \in Exports
        => /\ session_state' = session_state
           /\ (/\ download_report # None
               /\ GeneratedLine(download_report'.val) = GeneratedLine(download_report.val))
                 => download_report' = download_report ]_vars

\* a second export in a row of a session with cards and no summary
C15_Witness ==
    /\ last = "ClickExportAllAgain"
    /\ download_report # None
    /\ session_state.summary = None
    /\ TruthySeq(session_state.flashcards)

\* the stored cards, none when the field is None
StoredCards ==
    IF session_state.flashcards = None THEN << >> ELSE session_state.flashcards.val

\* the report on the page has, in this order: file name, generation time,
\* transcript, the given summary section, the flashcards heading and one
\* line per stored card, in stored order, numbered from 1
ReportIs(summarySection) ==
    LET r == download_report.val IN
    /\ Len(r) = 5 + Len(StoredCards)
    /\ r[1] = [label |-> "File", number |-> 0, body |-> session_state.file_name.val]
    /\ r[2].label = "Generated" /\ r[2].body \in Clock
    /\ r[3] = [label |-> "=== TRANSCRIPTION ===", number |-> 0,
               body |-> session_state.transcription.val]
    /\ r[4] = [label |-> "=== SUMMARY ===", number |-> 0, body |-> summarySection]
    /\ r[5].label = "=== FLASHCARDS ==="
    /\ \A i \in 1 .. Len(StoredCards) :
          r[5 + i] = [label |-> "Card", number |-> i, body |-> StoredCards[i]]

\* C16 (as claimed): the summary section is the summary, and the placeholder
\* exactly when the summary is absent.
C16_PlaceholderWhenAbsent ==
    download_report # None
        => ReportIs(IF session_state.summary # None
                    THEN session_state.summary.val ELSE NoSummary)

\* C16 (amended): the summary section is the summary, and the placeholder
\* when the summary is absent or the empty string.
C16_PlaceholderWhenAbsentOrEmpty ==
    download_report # None
        => ReportIs(IF session_state.summary # None
                       /\ session_state.summary.val # Str(0, << >>)
                    THEN session_state.summary.val ELSE NoSummary)

\* a session with an empty summary and two or more cards was exported
C16_Witness ==
    /\ download_report # None
    /\ session_state.summary = Some(Str(0, << >>))
    /\ Len(StoredCards) >= 2

\* C17 (as claimed): an interaction, with the reruns it starts, moves the
\* session by at most one transition: a session that was EMPTY when the user
\* acted is not READY before the user acts again.
C17_OneStepPerInteraction ==
    ~(startPhase = "EMPTY" /\ Phase(session_state) = "READY")

\* C17 (amended): every run of the script makes at most one transition
\* (EMPTY to ACQUIRED, ACQUIRED to READY, or from a held audio to EMPTY by
\* reset); the run that acquires audio leaves the session ACQUIRED and ends
\* in st.rerun(), which starts the processing run with no further interaction.
C17_OneStepPerRun ==
    [][ /\ << Phase(session_state), Phase(session_state') >>
             \in { << "EMPTY", "EMPTY" >>, << "EMPTY", "ACQUIRED" >>,
                   << "ACQUIRED", "ACQUIRED" >>, << "ACQUIRED", "READY" >>,
                   << "READY", "READY" >>, << "READY", "EMPTY" >> }
        /\ (Phase(session_state) = "EMPTY" /\ Phase(session_state') # "EMPTY")
             => pc' = "rerun" ]_vars

\* the user acted once on an empty session and the results are on the page
C17_Witness ==
    /\ startPhase = "EMPTY"
    /\ Phase(session_state) = "READY"
    /\ pc = "idle"
    /\ "start_over" \in widgets
    /\ session_state.flashcards # None

\* C18 (as claimed): the temporary file of a call of
\* transcribe_with_whisper is gone when the run that made the call has ended.
C18_TempFileAlwaysRemoved ==
    lastTemp \in { "none", "removed" }

\* C18 (amended): every run that calls transcribe_with_whisper tries to
\* remove the temporary file before the call returns, whether the
\* collaborator returned or raised, so the file stays only when the removal
\* itself failed; a failed removal does not change the result of the call:
\* the transcript is stored exactly when the collaborator returned.
C18_TempFileRemovalAttempted ==
    [][ (Len(pipelineLog') > 0 /\ pipelineLog' # pipelineLog)
        => /\ lastTemp' \in { "removed", "remove_failed" }
           /\ pipelineLog'[Len(pipelineLog')].transcribe = "returned"
                <=> session_state'.transcription # None ]_vars

\* the removal failed after the collaborator returned, and the transcript
\* and the cards are stored
C18_Witness ==
    /\ lastTemp = "remove_failed"
    /\ Len(pipelineLog) > 0
    /\ LastStage.transcribe = "returned"
    /\ session_state.transcription # None
    /\ session_state.flashcards # None

\* C19: a handle once cached stays cached, also over a reset, and is
\* reused: a processing stage that runs while a loader's handle is cached
\* does not run that loader's body again, so it cannot fail loading.
C19_HandlesLoadedOnce ==
    [][ /\ cache \subseteq cache'
        /\ last' = "ClickStartOver" => cache' = cache
        /\ (Len(pipelineLog') > 0 /\ pipelineLog' # pipelineLog)
             => LET stage == pipelineLog'[Len(pipelineLog')] IN
                /\ "load_whisper" \in cache => stage.transcribe # "load_failed"
                /\ "load_models" \in cache
                     => /\ stage.summarize # "load_failed"
                        /\ stage.flashcards # "load_failed" ]_vars

\* a second call in the session transcribed and made cards with the handles
\* that were loaded before the first call raised
C19_Witness ==
    /\ Len(pipelineLog) = 2
    /\ pipelineLog[1].transcribe = "raised"
    /\ pipelineLog[2].transcribe = "returned"
    /\ pipelineLog[2].flashcards = "returned"
    /\ cache = { "load_models", "load_whisper" }
    /\ startPhase = "ACQUIRED"

====
